---------------------------- MODULE Spec2Model ----------------------------
(***************************************************************************)
(* A model of the chatbot flow builder: the flow graph mutator and the     *)
(* connectivity validator (hook useFlowManager), the flow storage engine   *)
(* (FlowStorageManager over localStorage) and the application component    *)
(* (FlowBuilder) that wires them together.                                 *)
(*                                                                         *)
(* JavaScript values are represented as follows.                           *)
(*   - an object is a record; a property that is missing or undefined is   *)
(*     a field that is not in the record's DOMAIN;                         *)
(*   - JavaScript null is the record [js |-> "null"] for a flow and the    *)
(*     string "null" for a handle or a coordinate;                         *)
(*   - numbers (coordinates) are the strings of NumberTokens, "NaN" being  *)
(*     the number NaN;                                                     *)
(*   - every timestamp (new Date().toISOString()) is the one string "ts":  *)
(*     the clock is not modelled;                                          *)
(*   - a stored text is [kind |-> "none"] (getItem returns null),          *)
(*     [kind |-> "malformed"] (text JSON.parse rejects) or                 *)
(*     [kind |-> "json", val |-> v] (the text JSON.stringify gives for v). *)
(***************************************************************************)
EXTENDS Integers, Sequences, FiniteSets, TLC

VARIABLES
    nodes,      \* useState nodes of FlowBuilder: sequence of node objects
    edges,      \* useState edges of FlowBuilder: sequence of edge objects
    nextId,     \* number of node ids generated so far (generateId is fresh)
    lastOp,     \* the last operation handled: its arguments and its result
    ls,         \* localStorage, restricted to the four STORAGE_KEYS
    mem,        \* memoryStorage, the in-process fallback map
    lsAccess,   \* FALSE when every localStorage call throws (SecurityError)
    modalState, \* useState modalState of FlowBuilder: the dialog shown
    isLoading   \* useState isLoading of FlowBuilder

editorVars == <<nodes, edges, nextId, lastOp>>
storeVars == <<ls, mem, lsAccess>>
uiVars == <<modalState, isLoading>>
vars == <<nodes, edges, nextId, lastOp, ls, mem, lsAccess, modalState,
          isLoading>>

(***************************************************************************)
(* Bounds of the model.                                                    *)
(***************************************************************************)
MaxNodes == 3      \* node ids generated in one run
MaxEdges == 2      \* edges held by the editor at once
QuotaLimit == 13   \* capacity of localStorage, in the units of TextSize
AppMaxNodes == 2   \* node ids generated in one run of the application

Range(s) == {s[i] : i \in 1..Len(s)}

\* {...a, ...b}: object spread, b's properties override a's
Spread(a, b) ==
    [k \in (DOMAIN a) \cup (DOMAIN b) |-> IF k \in DOMAIN b THEN b[k] ELSE a[k]]

\* the object without property k
Without(a, k) == [j \in (DOMAIN a) \ {k} |-> a[j]]

Has(o, k) == k \in DOMAIN o

\* JavaScript null where an object is expected
NullFlow == [js |-> "null"]

\* the value is null: reading a property of it raises a TypeError
IsNullItem(v) == Has(v, "js") /\ v.js = "null"

(***************************************************************************)
(* Node kinds (constants/nodeTypes.js) and node creation (App.js).         *)
(***************************************************************************)
NODE_CONFIGS ==
    [textMessage |->
        [type |-> "textMessage",
         defaultData |-> [text |-> "", lastModified |-> "ts"]]]

\* the node type strings a drop event can carry
DropTypes == {"textMessage", "conditional"}

\* finite coordinates a drop is projected to (already integers)
DropPositions == {[x |-> "15", y |-> "30"]}

NumberTokens == {"0", "15", "30", "NaN"}

\* Math.round of a coordinate token: integers and NaN are fixed points
MathRound(c) == c

\* generateId('node'): a fresh id, the i-th generated in this run
generateId(i) == "node_" \o ToString(i)

\* createNewNode: null for a type that is not registered
createNewNode(nodeType, position, i) ==
    IF nodeType \notin DOMAIN NODE_CONFIGS THEN NullFlow
    ELSE
    [id |-> generateId(i),
     type |-> nodeType,
     position |-> [x |-> MathRound(position.x), y |-> MathRound(position.y)],
     data |-> Spread(NODE_CONFIGS[nodeType].defaultData,
                     [id |-> generateId(i), createdAt |-> "ts",
                      lastModified |-> "ts"]),
     draggable |-> TRUE,
     selectable |-> TRUE,
     sourcePosition |-> "right",
     targetPosition |-> "left"]

\* FlowBuilder.addNode: returns at once for a null node, else
\* setNodes(prev => [...prev, newNode])
addNode(nds, newNode) ==
    IF IsNullItem(newNode) THEN nds ELSE Append(nds, newNode)

(***************************************************************************)
(* reactflow's addEdge, as used by onConnect.                              *)
(***************************************************************************)
HandleText(h) == IF h = "null" THEN "" ELSE h

getEdgeId(c) ==
    "reactflow__edge-" \o c.source \o HandleText(c.sourceHandle)
        \o "-" \o c.target \o HandleText(c.targetHandle)

connectionExists(edge, eds) ==
    \E i \in 1..Len(eds) :
        /\ eds[i].source = edge.source
        /\ eds[i].target = edge.target
        /\ eds[i].sourceHandle = edge.sourceHandle
        /\ eds[i].targetHandle = edge.targetHandle

addEdge(connection, eds) ==
    IF connection.source = "" \/ connection.target = "" THEN eds
    ELSE LET edge == Spread(connection, [id |-> getEdgeId(connection)])
         IN  IF connectionExists(edge, eds) THEN eds ELSE Append(eds, edge)

(***************************************************************************)
(* useFlowManager (hooks/useFlowManager.js).                               *)
(***************************************************************************)
\* the find of onConnect comparing the target where it should the source
MatchingEdges_byTarget(snapshot, connection) ==
    {i \in 1..Len(snapshot) :
        /\ snapshot[i].target = connection.target
        /\ snapshot[i].sourceHandle = connection.sourceHandle}

\* edges.find(...) of onConnect: the indices of the matching edges
MatchingEdges(snapshot, connection) ==
    {i \in 1..Len(snapshot) :
        /\ snapshot[i].source = connection.source
        /\ snapshot[i].sourceHandle = connection.sourceHandle}

Min(S) == CHOOSE m \in S : \A n \in S : m <= n

\* onConnect that adds the new edge and keeps the one it found
onConnect_keepsExisting(snapshot, eds, connection) == addEdge(connection, eds)

\* onConnect: `snapshot` is the edges value the callback closed over, `eds`
\* the state the setEdges updater receives
onConnect(snapshot, eds, connection) ==
    IF MatchingEdges(snapshot, connection) # {}
    THEN LET existingEdgeFromSource ==
                 snapshot[Min(MatchingEdges(snapshot, connection))]
             filteredEdges ==
                 SelectSeq(eds, LAMBDA e : e.id # existingEdgeFromSource.id)
         IN  addEdge(connection, filteredEdges)
    ELSE addEdge(connection, eds)

\* updateNodeData that merges the new data into the old
updateNodeData_merge(nds, nodeId, newData) ==
    [i \in 1..Len(nds) |->
        IF nds[i].id = nodeId
        THEN Spread(nds[i], [data |-> Spread(nds[i].data, newData)])
        ELSE nds[i]]

updateNodeData(nds, nodeId, newData) ==
    [i \in 1..Len(nds) |->
        IF nds[i].id = nodeId THEN Spread(nds[i], [data |-> newData])
        ELSE nds[i]]

deleteNodeNodes(nds, nodeId) == SelectSeq(nds, LAMBDA n : n.id # nodeId)

\* deleteNode that forgets the edges arriving at the node
deleteNodeEdges_sourceOnly(eds, nodeId) ==
    SelectSeq(eds, LAMBDA e : e.source # nodeId)

deleteNodeEdges(eds, nodeId) ==
    SelectSeq(eds, LAMBDA e : e.source # nodeId /\ e.target # nodeId)

\* validateFlow: the nodes without an incoming edge
nodesWithoutTargets(nds, eds) ==
    SelectSeq(nds, LAMBDA n : ~(\E i \in 1..Len(eds) : eds[i].target = n.id))

\* the ids reached from the ids in `from` along at most n edges
RECURSIVE ReachedWithin(_, _, _)
ReachedWithin(eds, from, n) ==
    IF n = 0 THEN from
    ELSE ReachedWithin(eds,
             from \cup {eds[j].target : j \in {k \in 1..Len(eds) :
                                                  eds[k].source \in from}},
             n - 1)

\* the ids of the nodes that cannot be reached along edges from a node
\* without incoming edge
Unreachable(nds, eds) ==
    LET starts == {nds[i].id : i \in {k \in 1..Len(nds) :
                       \A j \in 1..Len(eds) : eds[j].target # nds[k].id}}
    IN  {nds[i].id : i \in 1..Len(nds)}
            \ ReachedWithin(eds, starts, Len(nds))

\* a validator that checks reachability from the start node as well
validateFlow_reachability(nds, eds) ==
    IF Len(nds) <= 1 THEN [isValid |-> TRUE]
    ELSE IF Len(nodesWithoutTargets(nds, eds)) > 1
              \/ Unreachable(nds, eds) # {}
         THEN [isValid |-> FALSE, error |-> "disconnected nodes"]
         ELSE [isValid |-> TRUE]

\* validateFlow that tolerates two nodes without an incoming edge
validateFlow_offByOne(nds, eds) ==
    IF Len(nds) <= 1 THEN [isValid |-> TRUE]
    ELSE IF Len(nodesWithoutTargets(nds, eds)) > 2
         THEN [isValid |-> FALSE, error |-> "disconnected nodes"]
         ELSE [isValid |-> TRUE]

validateFlow(nds, eds) ==
    IF Len(nds) <= 1 THEN [isValid |-> TRUE]
    ELSE IF Len(nodesWithoutTargets(nds, eds)) > 1
         THEN [isValid |-> FALSE, error |-> "disconnected nodes"]
         ELSE [isValid |-> TRUE]


(***************************************************************************)
(* Stored texts and JSON (utils/storageManager.js).                        *)
(***************************************************************************)
STORAGE_KEYS ==
    [CURRENT_FLOW |-> "chatbot_flow_current",
     SAVED_FLOWS |-> "chatbot_flow_saved_list",
     USER_PREFERENCES |-> "chatbot_flow_preferences",
     BACKUP_FLOW |-> "chatbot_flow_backup"]

StorageKeySet == {STORAGE_KEYS[k] : k \in DOMAIN STORAGE_KEYS}

STORAGE_VERSION == "1.0.0"

NoText == [kind |-> "none"]
MalformedText == [kind |-> "malformed"]

IsNull(v) == v.js = "null"

\* JSON.stringify of a number: NaN is written as null
JsonNumber(c) == IF c = "NaN" THEN "null" ELSE c

JsonNode(n) ==
    IF Has(n, "position")
    THEN Spread(n, [position |->
                       [k \in DOMAIN n.position |-> JsonNumber(n.position[k])]])
    ELSE n

\* the value JSON.parse gives back for the text JSON.stringify wrote
JsonValue(v) ==
    IF IsNull(v) \/ ~Has(v, "nodes") THEN v
    ELSE Spread(v, [nodes |-> [i \in 1..Len(v.nodes) |-> JsonNode(v.nodes[i])]])

JSONstringify(v) == [kind |-> "json", val |-> JsonValue(v)]

\* length of a stored text, in units: one per record, node, edge and backup tag
TextSize(t) ==
    IF t.kind = "none" THEN 0
    ELSE IF t.kind = "malformed" THEN 1
    ELSE IF IsNull(t.val) THEN 1
    ELSE 1 + (IF Has(t.val, "nodes") THEN Len(t.val.nodes) ELSE 0)
           + (IF Has(t.val, "edges") THEN Len(t.val.edges) ELSE 0)
           + (IF Has(t.val, "isBackup") THEN 1 ELSE 0)

Used(store) ==
    TextSize(store[STORAGE_KEYS.CURRENT_FLOW])
        + TextSize(store[STORAGE_KEYS.SAVED_FLOWS])
        + TextSize(store[STORAGE_KEYS.USER_PREFERENCES])
        + TextSize(store[STORAGE_KEYS.BACKUP_FLOW])

\* a store is the triple the storage code reads and writes
Store(l, m, a) == [ls |-> l, mem |-> m, access |-> a]

\* isLocalStorageAvailable: the probe writes and removes one small item
isLocalStorageAvailable(st) == st.access /\ Used(st.ls) < QuotaLimit

\* localStorage.setItem succeeds when the new text fits the quota
Fits(st, key, value) ==
    Used(st.ls) - TextSize(st.ls[key]) + TextSize(value) <= QuotaLimit

\* storageWrapper.setItem: the store afterwards and the exception raised
wrapperSetItem(st, key, value) ==
    IF isLocalStorageAvailable(st)
    THEN IF Fits(st, key, value)
         THEN [st |-> [st EXCEPT !.ls[key] = value], threw |-> "none"]
         ELSE [st |-> st, threw |-> "QuotaExceededError"]
    ELSE [st |-> [st EXCEPT !.mem[key] = value], threw |-> "none"]

wrapperGetItem(st, key) ==
    IF isLocalStorageAvailable(st) THEN st.ls[key] ELSE st.mem[key]

wrapperRemoveItem(st, key) ==
    IF isLocalStorageAvailable(st)
    THEN [st EXCEPT !.ls[key] = NoText]
    ELSE [st EXCEPT !.mem[key] = NoText]

(***************************************************************************)
(* FlowStorageManager.                                                     *)
(***************************************************************************)
Truthy(o, k) == Has(o, k) /\ o[k] # ""

\* the required-fields test of a node without the test of its type
NodeMissingFields_noType(n) ==
    ~Truthy(n, "id") \/ ~Has(n, "position")

NodeMissingFields(n) ==
    ~Truthy(n, "id") \/ ~Truthy(n, "type") \/ ~Has(n, "position")

NodeBadPosition(n) ==
    \/ ~Has(n.position, "x") \/ ~Has(n.position, "y")
    \/ n.position.x \notin NumberTokens
    \/ n.position.y \notin NumberTokens

NodeInvalid(n) == NodeMissingFields(n) \/ NodeBadPosition(n)

EdgeInvalid(e) ==
    ~Truthy(e, "id") \/ ~Truthy(e, "source") \/ ~Truthy(e, "target")

validateFlowData(flowData) ==
    IF IsNull(flowData)
    THEN [isValid |-> FALSE, error |-> "Flow data must be a valid object"]
    ELSE IF ~Has(flowData, "nodes")
    THEN [isValid |-> FALSE, error |-> "Nodes must be an array"]
    ELSE IF ~Has(flowData, "edges")
    THEN [isValid |-> FALSE, error |-> "Edges must be an array"]
    ELSE LET badNodes == {i \in 1..Len(flowData.nodes) :
                             NodeInvalid(flowData.nodes[i])}
             badEdges == {i \in 1..Len(flowData.edges) :
                             EdgeInvalid(flowData.edges[i])}
         IN  IF badNodes # {}
             THEN IF IsNullItem(flowData.nodes[Min(badNodes)])
                  THEN \* node.id raises, the catch block answers
                       [isValid |-> FALSE, error |-> "Validation error"]
                  ELSE
                  [isValid |-> FALSE,
                   error |-> IF NodeMissingFields(flowData.nodes[Min(badNodes)])
                             THEN "Node is missing required fields"
                             ELSE "Node has invalid position data",
                   index |-> Min(badNodes) - 1]
             ELSE IF badEdges # {}
             THEN IF IsNullItem(flowData.edges[Min(badEdges)])
                  THEN \* edge.id raises, the catch block answers
                       [isValid |-> FALSE, error |-> "Validation error"]
                  ELSE
                  [isValid |-> FALSE,
                   error |-> "Edge is missing required fields",
                   index |-> Min(badEdges) - 1]
             ELSE [isValid |-> TRUE]

\* loadBackup that treats a missing backup as getCurrentFlow treats a
\* missing flow
loadBackup_nullWhenEmpty(st) ==
    LET backupData == wrapperGetItem(st, STORAGE_KEYS.BACKUP_FLOW)
    IN  IF backupData.kind = "none"
        THEN [success |-> TRUE, data |-> NullFlow]
        ELSE IF backupData.kind = "malformed"
        THEN [success |-> FALSE, code |-> "BACKUP_ERROR"]
        ELSE [success |-> TRUE, data |-> backupData.val]

loadBackup(st) ==
    LET backupData == wrapperGetItem(st, STORAGE_KEYS.BACKUP_FLOW)
    IN  IF backupData.kind = "none"
        THEN [success |-> FALSE, code |-> "NO_BACKUP"]
        ELSE IF backupData.kind = "malformed"
        THEN [success |-> FALSE, code |-> "BACKUP_ERROR"]
        ELSE [success |-> TRUE, data |-> backupData.val]

\* getCurrentFlow that turns to the backup when the current slot is empty
getCurrentFlow_backupWhenEmpty(st) ==
    LET storedData == wrapperGetItem(st, STORAGE_KEYS.CURRENT_FLOW)
        backupData == wrapperGetItem(st, STORAGE_KEYS.BACKUP_FLOW)
    IN  IF storedData.kind = "none" /\ backupData.kind = "json"
        THEN [success |-> TRUE, data |-> backupData.val]
        ELSE IF storedData.kind = "none"
        THEN [success |-> TRUE, data |-> NullFlow]
        ELSE IF storedData.kind = "malformed"
        THEN [success |-> FALSE, code |-> "PARSE_ERROR"]
        ELSE IF ~validateFlowData(storedData.val).isValid
        THEN LET backupResult ==
                     IF backupData.kind = "json"
                     THEN [success |-> TRUE, data |-> backupData.val]
                     ELSE [success |-> FALSE]
             IN  IF backupResult.success
                 THEN [success |-> TRUE, data |-> backupResult.data,
                       warning |-> "Primary flow data was corrupted"]
                 ELSE [success |-> FALSE, code |-> "INVALID_DATA"]
        ELSE [success |-> TRUE, data |-> storedData.val]

\* getCurrentFlow that answers with the primary data it found invalid
getCurrentFlow_returnsPrimary(st) ==
    LET storedData == wrapperGetItem(st, STORAGE_KEYS.CURRENT_FLOW)
    IN  IF storedData.kind = "none"
        THEN [success |-> TRUE, data |-> NullFlow]
        ELSE IF storedData.kind = "malformed"
        THEN [success |-> FALSE, code |-> "PARSE_ERROR"]
        ELSE IF ~validateFlowData(storedData.val).isValid
                /\ loadBackup(st).success
        THEN [success |-> TRUE, data |-> storedData.val,
              warning |-> "Primary flow data was corrupted"]
        ELSE IF ~validateFlowData(storedData.val).isValid
        THEN [success |-> FALSE, code |-> "INVALID_DATA"]
        ELSE [success |-> TRUE, data |-> storedData.val]

getCurrentFlow(st) ==
    LET storedData == wrapperGetItem(st, STORAGE_KEYS.CURRENT_FLOW)
    IN  IF storedData.kind = "none"
        THEN [success |-> TRUE, data |-> NullFlow]
        ELSE IF storedData.kind = "malformed"
        THEN [success |-> FALSE, code |-> "PARSE_ERROR"]
        ELSE IF ~validateFlowData(storedData.val).isValid
        THEN LET backupResult == loadBackup(st)
             IN  IF backupResult.success
                 THEN [success |-> TRUE, data |-> backupResult.data,
                       warning |-> "Primary flow data was corrupted"]
                 ELSE [success |-> FALSE, code |-> "INVALID_DATA"]
        ELSE [success |-> TRUE, data |-> storedData.val]

\* createBackup: the store afterwards and the boolean returned
createBackup(st, flowData) ==
    LET backupData ==
            Spread(IF IsNull(flowData) THEN [js |-> "object"] ELSE flowData,
                   [backupCreatedAt |-> "ts", isBackup |-> TRUE])
        w == wrapperSetItem(st, STORAGE_KEYS.BACKUP_FLOW,
                            JSONstringify(backupData))
    IN  IF w.threw = "none" THEN [st |-> w.st, ret |-> TRUE]
        ELSE [st |-> st, ret |-> FALSE]

\* flowData.nodes?.length || 0
LengthOrZero(o, k) == IF Has(o, k) THEN Len(o[k]) ELSE 0

enhanceFlowData(flowData) ==
    Spread(flowData,
           [metadata |->
               Spread(IF Has(flowData, "metadata") THEN flowData.metadata
                      ELSE [version |-> STORAGE_VERSION],
                      [version |-> STORAGE_VERSION,
                       savedAt |-> "ts",
                       nodeCount |-> LengthOrZero(flowData, "nodes"),
                       edgeCount |-> LengthOrZero(flowData, "edges"),
                       lastModified |-> "ts"])])

\* the catch block of saveCurrentFlow: the code reported for an exception
saveErrorCode(threw) ==
    IF threw = "QuotaExceededError" THEN "STORAGE_QUOTA_EXCEEDED"
    ELSE "UNKNOWN_ERROR"

\* saveCurrentFlow that writes through the wrapper without asking first
\* whether localStorage is available
saveCurrentFlow_noProbe(st, flowData) ==
    LET existingFlow == getCurrentFlow(st)
        st1 == IF existingFlow.success /\ ~IsNull(existingFlow.data)
               THEN createBackup(st, existingFlow.data).st
               ELSE st
    IN  IF IsNull(flowData)
        THEN [st |-> st1,
              res |-> [success |-> FALSE, code |-> saveErrorCode("TypeError")]]
        ELSE
        LET enhancedFlowData == enhanceFlowData(flowData)
            w == wrapperSetItem(st1, STORAGE_KEYS.CURRENT_FLOW,
                                JSONstringify(enhancedFlowData))
        IN  IF ~validateFlowData(enhancedFlowData).isValid
            THEN [st |-> st1,
                  res |-> [success |-> FALSE, code |-> "VALIDATION_ERROR"]]
            ELSE IF w.threw # "none"
            THEN [st |-> st1,
                  res |-> [success |-> FALSE, code |-> saveErrorCode(w.threw)]]
            ELSE [st |-> w.st,
                  res |-> [success |-> TRUE, data |-> enhancedFlowData]]

\* saveCurrentFlow: the store afterwards and the result returned
saveCurrentFlow(st, flowData) ==
    LET existingFlow == getCurrentFlow(st)
        st1 == IF existingFlow.success /\ ~IsNull(existingFlow.data)
               THEN createBackup(st, existingFlow.data).st
               ELSE st
    IN  IF IsNull(flowData)
        THEN \* flowData.metadata raises a TypeError
             [st |-> st1,
              res |-> [success |-> FALSE, code |-> saveErrorCode("TypeError")]]
        ELSE
        LET enhancedFlowData == enhanceFlowData(flowData)
        IN  IF ~validateFlowData(enhancedFlowData).isValid
            THEN [st |-> st1,
                  res |-> [success |-> FALSE, code |-> "VALIDATION_ERROR"]]
            ELSE IF ~isLocalStorageAvailable(st1)
            THEN [st |-> st1,
                  res |-> [success |-> FALSE, code |-> "STORAGE_NOT_SUPPORTED"]]
            ELSE
            LET w == wrapperSetItem(st1, STORAGE_KEYS.CURRENT_FLOW,
                                    JSONstringify(enhancedFlowData))
            IN  IF w.threw # "none"
                THEN [st |-> st1,
                      res |-> [success |-> FALSE,
                               code |-> saveErrorCode(w.threw)]]
                ELSE IF wrapperGetItem(w.st, STORAGE_KEYS.CURRENT_FLOW).kind
                            = "none"
                THEN \* 'Failed to verify saved data'
                     [st |-> w.st,
                      res |-> [success |-> FALSE,
                               code |-> saveErrorCode("Error")]]
                ELSE [st |-> w.st,
                      res |-> [success |-> TRUE, data |-> enhancedFlowData]]

\* the stores the medium goes through during saveCurrentFlow: before the
\* backup write, between the backup write and the current write, and after
\* the current write
saveCurrentFlowPoints(st, flowData) ==
    LET existingFlow == getCurrentFlow(st)
        st1 == IF existingFlow.success /\ ~IsNull(existingFlow.data)
               THEN createBackup(st, existingFlow.data).st
               ELSE st
    IN  <<st, st1, saveCurrentFlow(st, flowData).st>>

\* Object.values(STORAGE_KEYS), in the order of the object literal
KeyOrder ==
    <<STORAGE_KEYS.CURRENT_FLOW, STORAGE_KEYS.SAVED_FLOWS,
      STORAGE_KEYS.USER_PREFERENCES, STORAGE_KEYS.BACKUP_FLOW>>

\* the forEach of clearAllData from position i on; localStorage.removeItem
\* raises at position failAt (0: nowhere), which only the branch of the
\* wrapper that calls it can do; the exception leaves the loop
RECURSIVE RemoveAll(_, _, _)
RemoveAll(st, i, failAt) ==
    IF i > Len(KeyOrder) THEN [st |-> st, threwAt |-> "none"]
    ELSE IF i = failAt /\ isLocalStorageAvailable(st)
    THEN [st |-> st, threwAt |-> KeyOrder[i]]
    ELSE RemoveAll(wrapperRemoveItem(st, KeyOrder[i]), i + 1, failAt)

\* clearAllData: true after the loop, false from the catch block
clearAllData(st, failAt) ==
    LET r == RemoveAll(st, 1, failAt)
    IN  [st |-> r.st, ret |-> (r.threwAt = "none"), threwAt |-> r.threwAt]


(***************************************************************************)
(* The editor: FlowBuilder's handlers over nodes and edges (App.js).       *)
(***************************************************************************)
\* the output ports a connect gesture can start from
SourceHandles == {"null", "a"}

\* the one source handle of TextMessageNode, which has no id
AppHandles == {"null"}

\* the texts an edit can enter
Texts == {"hi"}

AllNodeIds == {generateId(i) : i \in 1..MaxNodes}

NodeIds(nds) == {nds[i].id : i \in 1..Len(nds)}

NodeById(nds, id) == nds[CHOOSE i \in 1..Len(nds) : nds[i].id = id]

EmptyStore == [k \in StorageKeySet |-> NoText]

EditorInit ==
    /\ nodes = <<>>
    /\ edges = <<>>
    /\ nextId = 0
    /\ lastOp = [op |-> "init"]

StoreInit ==
    /\ ls = EmptyStore
    /\ mem = EmptyStore
    /\ lsAccess = TRUE

\* closeModal: the state of a dialog that is not shown
closeModal == [isOpen |-> FALSE, type |-> "info", title |-> ""]

\* showModal(type, title, message, options): the dialog shown; onConfirm
\* and onCancel are there when options gives them; the message text is
\* left out
showModal(type, title, options) ==
    Spread([isOpen |-> TRUE, type |-> type, title |-> title], options)

NoOptions == [o \in {} |-> o]

UiInit ==
    /\ modalState = closeModal
    /\ isLoading = TRUE

Init == EditorInit /\ StoreInit /\ UiInit

\* what lastOp keeps of an editor operation: everything, or nothing where
\* the history of the editor is not looked at
Observed(traced, op) == IF traced THEN op ELSE [op |-> "init"]

\* onDrop: createNewNode, then addNode unless it returned null
DropNode(limit, positions, traced) ==
    \E nodeType \in DropTypes, position \in positions :
        /\ LET newNode == createNewNode(nodeType, position, nextId + 1)
           IN  IF ~IsNullItem(newNode)
               THEN /\ nextId < limit
                    /\ nodes' = addNode(nodes, newNode)
                    /\ nextId' = nextId + 1
               ELSE UNCHANGED <<nodes, nextId>>
        /\ lastOp' = Observed(traced, [op |-> "drop", nodeType |-> nodeType])
        /\ UNCHANGED <<edges, ls, mem, lsAccess, uiVars>>

\* a connect gesture between two rendered nodes, handled by onConnect with
\* the edges of the current render
Connect(handles, traced) ==
    \E source \in NodeIds(nodes), target \in NodeIds(nodes),
       sourceHandle \in handles :
        LET connection == [source |-> source, sourceHandle |-> sourceHandle,
                           target |-> target, targetHandle |-> "null"]
            found == MatchingEdges(edges, connection)
        IN  /\ edges' = onConnect(edges, edges, connection)
            /\ Len(edges') <= MaxEdges
            /\ lastOp' = Observed(traced,
                    [op |-> "connect", connection |-> connection,
                     replaced |-> IF found = {} THEN "none"
                                  ELSE edges[Min(found)].target])
            /\ UNCHANGED <<nodes, nextId, ls, mem, lsAccess, uiVars>>

\* window.updateNodeText(nodeId, newText), called by TextMessageNode when the
\* edited text differs from the node's text
InlineEdit(traced) ==
    \E nodeId \in NodeIds(nodes), newText \in Texts :
        LET newData == [text |-> newText, lastModified |-> "ts"]
        IN  /\ newText # NodeById(nodes, nodeId).data.text
            /\ nodes' = updateNodeData(nodes, nodeId, newData)
            /\ lastOp' = Observed(traced,
                    [op |-> "updateNodeData", nodeId |-> nodeId,
                     newData |-> newData])
            /\ UNCHANGED <<edges, nextId, ls, mem, lsAccess, uiVars>>

\* SettingsPanel.handleTextChange: onNodeUpdate(selectedNode.id,
\* {...selectedNode.data, text, lastModified}); nodeId ranges over every id
\* generated, also of a node deleted since it was selected
SettingsEdit(traced) ==
    \E nodeId \in AllNodeIds, newText \in Texts :
        LET oldData == IF nodeId \in NodeIds(nodes)
                       THEN NodeById(nodes, nodeId).data
                       ELSE NODE_CONFIGS.textMessage.defaultData
            newData == Spread(oldData,
                              [text |-> newText, lastModified |-> "ts"])
        IN  /\ nodes' = updateNodeData(nodes, nodeId, newData)
            /\ lastOp' = Observed(traced,
                    [op |-> "updateNodeData", nodeId |-> nodeId,
                     newData |-> newData])
            /\ UNCHANGED <<edges, nextId, ls, mem, lsAccess, uiVars>>

\* useFlowManager.deleteNode(nodeId)
DeleteNode(traced) ==
    \E nodeId \in AllNodeIds :
        /\ nodes' = deleteNodeNodes(nodes, nodeId)
        /\ edges' = deleteNodeEdges(edges, nodeId)
        /\ lastOp' = Observed(traced,
                [op |-> "deleteNode", nodeId |-> nodeId,
                 removedNodes |-> Len(nodes) - Len(nodes'),
                 removedEdges |-> Len(edges) - Len(edges')])
        /\ UNCHANGED <<nextId, ls, mem, lsAccess, uiVars>>

\* handleResetAll, confirmed: setNodes([]), setEdges([])
ResetAll(traced) ==
    /\ Len(nodes) # 0 \/ Len(edges) # 0
    /\ nodes' = <<>>
    /\ edges' = <<>>
    /\ lastOp' = Observed(traced, [op |-> "reset"])
    /\ UNCHANGED <<nextId, ls, mem, lsAccess, uiVars>>

\* useFlowManager.validateFlow called on the rendered nodes and edges
ValidateFlow ==
    /\ lastOp' = [op |-> "validateFlow", result |-> validateFlow(nodes, edges)]
    /\ UNCHANGED <<nodes, edges, nextId, ls, mem, lsAccess, uiVars>>

Next ==
    \/ DropNode(MaxNodes, DropPositions, TRUE)
    \/ Connect(SourceHandles, TRUE)
    \/ InlineEdit(TRUE)
    \/ SettingsEdit(TRUE)
    \/ DeleteNode(TRUE)
    \/ ResetAll(TRUE)
    \/ ValidateFlow

Spec == Init /\ [][Next]_vars


(***************************************************************************)
(* The storage engine driven through its exported API, with the medium     *)
(* changing and the stored texts tampered with between calls.              *)
(***************************************************************************)
ApiNode(id, x) ==
    [id |-> id, type |-> "textMessage", position |-> [x |-> x, y |-> "0"],
     data |-> [text |-> "hi", lastModified |-> "ts"]]

ApiEdge(source, target) ==
    LET c == [source |-> source, sourceHandle |-> "null",
              target |-> target, targetHandle |-> "null"]
    IN  Spread(c, [id |-> getEdgeId(c)])

ApiFlow(nds, eds) ==
    [js |-> "object", nodes |-> nds, edges |-> eds,
     metadata |-> [version |-> "1.0.0", createdAt |-> "ts",
                   nodeCount |-> Len(nds), edgeCount |-> Len(eds)]]

FlowEmpty == ApiFlow(<<>>, <<>>)
Flow1 == ApiFlow(<<ApiNode("a", "0")>>, <<>>)
Flow2 == ApiFlow(<<ApiNode("a", "0"), ApiNode("b", "15")>>,
                 <<ApiEdge("a", "b")>>)
Flow3 == ApiFlow(<<ApiNode("a", "0"), ApiNode("b", "15"), ApiNode("c", "30")>>,
                 <<ApiEdge("a", "b"), ApiEdge("b", "c")>>)
\* a position that is a number for typeof and is not representable in JSON
FlowNaN == ApiFlow(<<ApiNode("a", "NaN")>>, <<>>)
\* an edge to a node that is not in the flow
FlowDangling == ApiFlow(<<ApiNode("a", "0")>>, <<ApiEdge("a", "z")>>)
\* a node without id
FlowNoId == ApiFlow(<<Without(ApiNode("a", "0"), "id")>>, <<>>)
\* a node whose position has no y
FlowBadPosition ==
    ApiFlow(<<Spread(ApiNode("a", "0"), [position |-> [x |-> "0"]])>>, <<>>)
\* an edge without target
FlowBadEdge ==
    ApiFlow(<<ApiNode("a", "0")>>, <<Without(ApiEdge("a", "a"), "target")>>)
\* nodes is not an array
FlowNoNodes == Without(ApiFlow(<<>>, <<>>), "nodes")

InputFlows ==
    {FlowEmpty, Flow1, Flow2, Flow3, FlowNaN, FlowDangling, FlowNoId,
     FlowBadPosition, FlowBadEdge, FlowNoNodes, NullFlow}

\* the flows createBackup is called with directly
BackupInputs == {Flow1, FlowNoId, NullFlow}

\* texts written into a slot from outside the storage engine
CorruptTexts ==
    {MalformedText, [kind |-> "json", val |-> FlowNoId],
     [kind |-> "json", val |-> NullFlow]}

CurrentStore == Store(ls, mem, lsAccess)

\* saveCurrentFlow called with one of the given flows
SaveCurrentFlowOf(flows) ==
    \E flowData \in flows :
        LET r == saveCurrentFlow(CurrentStore, flowData)
        IN  /\ ls' = r.st.ls
            /\ mem' = r.st.mem
            /\ lastOp' = [op |-> "saveCurrentFlow", flow |-> flowData,
                           res |-> r.res]
            /\ UNCHANGED <<nodes, edges, nextId, lsAccess, uiVars>>

ApiSaveCurrentFlow == SaveCurrentFlowOf(InputFlows)

ApiGetCurrentFlow ==
    /\ lastOp' = [op |-> "getCurrentFlow", res |-> getCurrentFlow(CurrentStore)]
    /\ UNCHANGED <<nodes, edges, nextId, ls, mem, lsAccess, uiVars>>

ApiCreateBackup ==
    \E flowData \in BackupInputs :
        LET r == createBackup(CurrentStore, flowData)
        IN  /\ ls' = r.st.ls
            /\ mem' = r.st.mem
            /\ lastOp' = [op |-> "createBackup", ret |-> r.ret]
            /\ UNCHANGED <<nodes, edges, nextId, lsAccess, uiVars>>

ApiLoadBackup ==
    /\ lastOp' = [op |-> "loadBackup", res |-> loadBackup(CurrentStore)]
    /\ UNCHANGED <<nodes, edges, nextId, ls, mem, lsAccess, uiVars>>

ApiClearAllData ==
    \E failAt \in 0..Len(KeyOrder) :
        LET r == clearAllData(CurrentStore, failAt)
        IN  /\ ls' = r.st.ls
            /\ mem' = r.st.mem
            /\ lastOp' = [op |-> "clearAllData", ret |-> r.ret,
                           threwAt |-> r.threwAt]
            /\ UNCHANGED <<nodes, edges, nextId, lsAccess, uiVars>>

\* a slot is overwritten from outside (another version, the developer tools)
Corrupt ==
    \E key \in {STORAGE_KEYS.CURRENT_FLOW, STORAGE_KEYS.BACKUP_FLOW},
       text \in CorruptTexts :
        /\ lsAccess
        /\ Fits(CurrentStore, key, text)
        /\ ls' = [ls EXCEPT ![key] = text]
        /\ lastOp' = [op |-> "corrupt"]
        /\ UNCHANGED <<nodes, edges, nextId, mem, lsAccess, uiVars>>

\* other code of the same origin stores or removes an item of one unit;
\* the quota of localStorage is shared by the whole origin
\* `seen` is what lastOp holds afterwards: the change itself, or the last
\* operation of the program when only those are recorded
ForeignDataSeenAs(seen) ==
    \E text \in {NoText, MalformedText} :
        /\ lsAccess
        /\ text # ls[STORAGE_KEYS.USER_PREFERENCES]
        /\ Fits(CurrentStore, STORAGE_KEYS.USER_PREFERENCES, text)
        /\ ls' = [ls EXCEPT ![STORAGE_KEYS.USER_PREFERENCES] = text]
        /\ lastOp' = seen
        /\ UNCHANGED <<nodes, edges, nextId, mem, lsAccess, uiVars>>

ForeignData == ForeignDataSeenAs([op |-> "foreignData"])

\* the browser starts or stops refusing access to localStorage
MediumChangeSeenAs(seen) ==
    /\ lsAccess' = ~lsAccess
    /\ lastOp' = seen
    /\ UNCHANGED <<nodes, edges, nextId, ls, mem, uiVars>>

MediumChange == MediumChangeSeenAs([op |-> "mediumChange"])

\* the page is loaded again: the module variable memoryStorage starts empty
PageReload ==
    /\ mem' = EmptyStore
    /\ lastOp' = [op |-> "pageReload"]
    /\ UNCHANGED <<nodes, edges, nextId, ls, lsAccess, uiVars>>

StorageNext ==
    \/ ApiSaveCurrentFlow
    \/ ApiGetCurrentFlow
    \/ ApiCreateBackup
    \/ ApiLoadBackup
    \/ ApiClearAllData
    \/ Corrupt
    \/ ForeignData
    \/ MediumChange
    \/ PageReload

StorageSpec == Init /\ [][StorageNext]_vars


(***************************************************************************)
(* The structural validation alone, applied to flows of every shape.       *)
(***************************************************************************)
\* nodes as validateFlowData can meet them: complete, without a field, with
\* an empty field, with a position that lacks a coordinate or holds a value
\* that is not a number (a string, the null JSON gives for NaN), and null
NodeVariants ==
    LET n == ApiNode("a", "0")
    IN  {n, Without(n, "id"), Spread(n, [id |-> ""]),
         Without(n, "type"), Spread(n, [type |-> ""]),
         Without(n, "position"),
         Spread(n, [position |-> [x |-> "0"]]),
         Spread(n, [position |-> [y |-> "0"]]),
         Spread(n, [position |-> [x |-> "abc", y |-> "0"]]),
         Spread(n, [position |-> [x |-> "0", y |-> "null"]]),
         Spread(n, [position |-> [x |-> "NaN", y |-> "30"]]),
         NullFlow}

\* edges as validateFlowData can meet them
EdgeVariants ==
    LET e == ApiEdge("a", "a")
    IN  {e, ApiEdge("a", "z"),
         Without(e, "id"), Spread(e, [id |-> ""]),
         Without(e, "source"), Spread(e, [source |-> ""]),
         Without(e, "target"), Spread(e, [target |-> ""]),
         NullFlow}

ValidationInputs ==
    InputFlows
        \cup {Without(ApiFlow(<<>>, <<>>), "edges"), [js |-> "object"]}
        \cup {ApiFlow(<<n>>, <<>>) : n \in NodeVariants}
        \cup {ApiFlow(<<ApiNode("b", "15"), n>>, <<>>) : n \in NodeVariants}
        \cup {ApiFlow(<<n>>, <<e>>) : n \in NodeVariants, e \in EdgeVariants}
        \cup {ApiFlow(<<ApiNode("a", "0")>>, <<ApiEdge("a", "a"), e>>) :
                  e \in EdgeVariants}

ApiValidateFlowData ==
    \E flowData \in ValidationInputs :
        /\ lastOp' = [op |-> "validateFlowData", flow |-> flowData,
                       result |-> validateFlowData(flowData)]
        /\ UNCHANGED <<nodes, edges, nextId, ls, mem, lsAccess, uiVars>>

ValidatorNext == ApiValidateFlowData

ValidatorSpec == Init /\ [][ValidatorNext]_vars


(***************************************************************************)
(* The two ways a node is added: the drop handler of FlowBuilder and the   *)
(* addNode the hook useFlowManager returns.                                *)
(***************************************************************************)
\* the nodeData useFlowManager.addNode can be handed: a registered kind, a
\* kind that is not registered, and null
NodeDataInputs ==
    {NODE_CONFIGS.textMessage,
     [type |-> "conditional", defaultData |-> [text |-> ""]],
     NullFlow}

\* useFlowManager.addNode(nodeData, position): the nodes afterwards and the
\* exception raised; the id is `node-${Date.now()}`, the clock read as a
\* counter
hookAddNode(nds, nodeData, position, i) ==
    IF IsNullItem(nodeData)
    THEN \* nodeData.type raises
         [nds |-> nds, threw |-> "TypeError"]
    ELSE [nds |-> Append(nds, [id |-> "node-" \o ToString(i),
                               type |-> nodeData.type,
                               position |-> position,
                               data |-> nodeData.defaultData]),
          threw |-> "none"]

HookAddNode ==
    \E nodeData \in NodeDataInputs, position \in DropPositions :
        LET r == hookAddNode(nodes, nodeData, position, nextId + 1)
        IN  /\ nextId < MaxNodes
            /\ nodes' = r.nds
            /\ nextId' = IF r.threw = "none" THEN nextId + 1 ELSE nextId
            /\ lastOp' = [op |-> "addNode", nodeData |-> nodeData,
                           threw |-> r.threw]
            /\ UNCHANGED <<edges, ls, mem, lsAccess, uiVars>>

AddNodeNext ==
    \/ DropNode(MaxNodes, DropPositions, TRUE)
    \/ HookAddNode
    \/ DeleteNode(TRUE)
    \/ ResetAll(TRUE)

AddNodeSpec == Init /\ [][AddNodeNext]_vars


(***************************************************************************)
(* The application: the editor with the Save button and the load on start. *)
(***************************************************************************)
\* a Save button that stores the flow whatever the validation said
HandleSave_savesUnvalidated ==
    LET validation == validateFlow(nodes, edges)
        flowData == [js |-> "object", nodes |-> nodes, edges |-> edges,
                     metadata |-> [version |-> "1.0.0", createdAt |-> "ts",
                                   nodeCount |-> Len(nodes),
                                   edgeCount |-> Len(edges)]]
        r == saveCurrentFlow(CurrentStore, flowData)
    IN  /\ ls' = r.st.ls
        /\ mem' = r.st.mem
        /\ lastOp' = [op |-> "handleSave", validation |-> validation,
                       res |-> r.res]
        /\ modalState' = IF r.res.success
                         THEN showModal("success", "Flow Saved Successfully",
                                        NoOptions)
                         ELSE showModal("error", "Save Failed", NoOptions)
        /\ UNCHANGED <<nodes, edges, nextId, lsAccess, isLoading>>

\* handleSave: validateFlow first, saveCurrentFlow only when it passes
HandleSave ==
    LET validation == validateFlow(nodes, edges)
        flowData == [js |-> "object", nodes |-> nodes, edges |-> edges,
                     metadata |-> [version |-> "1.0.0", createdAt |-> "ts",
                                   nodeCount |-> Len(nodes),
                                   edgeCount |-> Len(edges)]]
        r == saveCurrentFlow(CurrentStore, flowData)
    IN  /\ IF validation.isValid
           THEN /\ ls' = r.st.ls
                /\ mem' = r.st.mem
                /\ lastOp' = [op |-> "handleSave", validation |-> validation,
                               res |-> r.res]
                /\ modalState' =
                      IF r.res.success
                      THEN showModal("success", "Flow Saved Successfully",
                                     NoOptions)
                      ELSE showModal("error", "Save Failed", NoOptions)
           ELSE /\ UNCHANGED <<ls, mem>>
                /\ lastOp' = [op |-> "handleSave", validation |-> validation]
                /\ modalState' = showModal("error", "Cannot Save Flow",
                                           NoOptions)
        /\ UNCHANGED <<nodes, edges, nextId, lsAccess, isLoading>>

\* the page is loaded: fresh component state, empty memoryStorage, then the
\* effect initializeFlow; getCurrentFlow returns for every store, so the
\* catch block is never entered and the finally block ends the loading
InitializeFlow ==
    LET loadResult == getCurrentFlow(Store(ls, EmptyStore, lsAccess))
        loaded == loadResult.success /\ ~IsNull(loadResult.data)
    IN  /\ mem' = EmptyStore
        /\ nodes' = IF loaded /\ Has(loadResult.data, "nodes")
                    THEN loadResult.data.nodes ELSE <<>>
        /\ edges' = IF loaded /\ Has(loadResult.data, "edges")
                    THEN loadResult.data.edges ELSE <<>>
        /\ modalState' =
              IF loaded
              THEN IF Has(loadResult, "warning")
                   THEN showModal("warning", "Flow Restored", NoOptions)
                   ELSE closeModal
              ELSE IF Has(loadResult, "code")
                      /\ loadResult.code # "NO_SAVED_FLOW"
                   THEN showModal("error", "Loading Error", NoOptions)
                   ELSE closeModal
        /\ isLoading' = FALSE
        /\ lastOp' = [op |-> "initializeFlow", res |-> loadResult]
        /\ UNCHANGED <<nextId, ls, lsAccess>>

\* the OK button, the close button, the backdrop or the Escape key of the
\* dialog: onClose
CloseModal(traced) ==
    /\ modalState.isOpen
    /\ modalState' = closeModal
    /\ lastOp' = Observed(traced, [op |-> "closeModal"])
    /\ UNCHANGED <<nodes, edges, nextId, ls, mem, lsAccess, isLoading>>

\* the editor is rendered once the loading has ended, and a dialog that is
\* shown covers it
UiReady == ~isLoading /\ ~modalState.isOpen

AppNext ==
    \/ UiReady /\ DropNode(AppMaxNodes, DropPositions, FALSE)
    \/ UiReady /\ Connect(AppHandles, FALSE)
    \/ UiReady /\ InlineEdit(FALSE)
    \/ UiReady /\ DeleteNode(FALSE)
    \/ UiReady /\ ResetAll(FALSE)
    \/ UiReady /\ HandleSave
    \/ CloseModal(FALSE)
    \/ InitializeFlow
    \/ MediumChange

AppSpec == Init /\ [][AppNext]_vars


(***************************************************************************)
(* Readers of the stored flow: saves through the storage API, then the     *)
(* medium changing under the program, then getCurrentFlow or the start of  *)
(* the application. lastOp keeps the last operation of the program across  *)
(* the changes of the medium.                                              *)
(***************************************************************************)
\* two nodes joined in a cycle
FlowCycle ==
    ApiFlow(<<ApiNode("a", "0"), ApiNode("b", "15")>>,
            <<ApiEdge("a", "b"), ApiEdge("b", "a")>>)

ReaderFlows == {Flow1, FlowCycle, Flow3, FlowNaN}

ReaderNext ==
    \/ SaveCurrentFlowOf(ReaderFlows)
    \/ ApiGetCurrentFlow
    \/ InitializeFlow
    \/ ForeignDataSeenAs(lastOp)
    \/ MediumChangeSeenAs(lastOp)

ReaderSpec == Init /\ [][ReaderNext]_vars


(***************************************************************************)
(* Saves that are cut short: the page is closed or the browser ends while  *)
(* saveCurrentFlow runs.                                                   *)
(***************************************************************************)
\* saveCurrentFlow(flowData) ends at one of its points; what was written to
\* localStorage stays, the fallback map goes with the page
SaveInterrupted ==
    \E flowData \in ReaderFlows, point \in 1..3 :
        LET st == saveCurrentFlowPoints(CurrentStore, flowData)[point]
        IN  /\ ls' = st.ls
            /\ mem' = EmptyStore
            /\ lastOp' = [op |-> "saveInterrupted", flow |-> flowData,
                           point |-> point]
            /\ UNCHANGED <<nodes, edges, nextId, lsAccess, uiVars>>

CrashNext ==
    \/ SaveCurrentFlowOf(ReaderFlows)
    \/ SaveInterrupted
    \/ ForeignData
    \/ MediumChange

CrashSpec == Init /\ [][CrashNext]_vars


(***************************************************************************)
(* Connect events that arrive before the component is rendered again: the  *)
(* callback onConnect is the one of the last render and finds with the     *)
(* edges of that render, while the updaters given to setEdges run one      *)
(* after the other on the state.                                           *)
(***************************************************************************)
\* two connect events handled by the onConnect of one render
ConnectTwice ==
    \E source \in NodeIds(nodes), sourceHandle \in SourceHandles,
       target1 \in NodeIds(nodes), target2 \in NodeIds(nodes) :
        LET first == [source |-> source, sourceHandle |-> sourceHandle,
                      target |-> target1, targetHandle |-> "null"]
            second == [source |-> source, sourceHandle |-> sourceHandle,
                       target |-> target2, targetHandle |-> "null"]
        IN  /\ edges' = onConnect(edges, onConnect(edges, edges, first),
                                  second)
            /\ Len(edges') <= MaxEdges
            /\ lastOp' = [op |-> "connectTwice", first |-> first,
                           second |-> second]
            /\ UNCHANGED <<nodes, nextId, ls, mem, lsAccess, uiVars>>

BatchNext ==
    \/ DropNode(MaxNodes, DropPositions, TRUE)
    \/ Connect(SourceHandles, TRUE)
    \/ ConnectTwice
    \/ DeleteNode(TRUE)

BatchSpec == Init /\ [][BatchNext]_vars


(***************************************************************************)
(* The Reset All button and its confirmation dialog.                       *)
(***************************************************************************)
\* the state after setModalState was called with each of the values in
\* turn within one event handler: the last value
afterSetStates(values) == values[Len(values)]

\* handleResetAll: the click on the Reset All button
HandleResetAll ==
    /\ modalState' =
          IF Len(nodes) = 0 /\ Len(edges) = 0
          THEN showModal("info", "Nothing to Reset", NoOptions)
          ELSE showModal("confirm", "Reset All Nodes",
                         [onConfirm |-> "resetAll",
                          onCancel |-> "resetCancelled"])
    /\ lastOp' = [op |-> "handleResetAll"]
    /\ UNCHANGED <<nodes, edges, nextId, ls, mem, lsAccess, isLoading>>

\* the confirm button of the dialog: onConfirm(), then onClose()
ConfirmClick ==
    /\ modalState.isOpen
    /\ modalState.type = "confirm"
    /\ IF Has(modalState, "onConfirm")
       THEN \* the onConfirm of handleResetAll
            /\ nodes' = <<>>
            /\ edges' = <<>>
            /\ modalState' =
                  afterSetStates(<<showModal("success", "Flow Reset Complete",
                                             NoOptions),
                                   closeModal>>)
       ELSE /\ UNCHANGED <<nodes, edges>>
            /\ modalState' = afterSetStates(<<closeModal>>)
    /\ lastOp' = [op |-> "confirmClick"]
    /\ UNCHANGED <<nextId, ls, mem, lsAccess, isLoading>>

\* the cancel button of the dialog: onCancel(), which only logs, then
\* onClose()
CancelClick ==
    /\ modalState.isOpen
    /\ modalState.type = "confirm"
    /\ modalState' = afterSetStates(<<closeModal>>)
    /\ lastOp' = [op |-> "cancelClick"]
    /\ UNCHANGED <<nodes, edges, nextId, ls, mem, lsAccess, isLoading>>

ResetNext ==
    \/ InitializeFlow
    \/ UiReady /\ DropNode(AppMaxNodes, DropPositions, TRUE)
    \/ UiReady /\ Connect(AppHandles, TRUE)
    \/ UiReady /\ HandleSave
    \/ UiReady /\ HandleResetAll
    \/ ConfirmClick
    \/ CancelClick
    \/ CloseModal(TRUE)

ResetSpec == Init /\ [][ResetNext]_vars


(***************************************************************************)
(* Properties of the validator and the mutator.                            *)
(***************************************************************************)
\* the positions of the nodes no edge arrives at
WithoutIncoming(nds, eds) ==
    {i \in 1..Len(nds) : \A j \in 1..Len(eds) : eds[j].target # nds[i].id}

\* C1: validateFlow accepts every flow of at most one node, and rejects a
\* flow of two or more nodes exactly when at least two of its nodes have no
\* edge arriving at them.
C1_ValidateFlowCountsEntryNodes ==
    lastOp.op = "validateFlow" =>
        /\ Len(nodes) <= 1 => lastOp.result.isValid
        /\ Len(nodes) >= 2 =>
              (~lastOp.result.isValid
                  <=> Cardinality(WithoutIncoming(nodes, edges)) >= 2)

\* three nodes A, B, C with the single edge A -> B were validated and refused
C1_Witness ==
    /\ lastOp.op = "validateFlow"
    /\ ~lastOp.result.isValid
    /\ Len(nodes) = 3
    /\ Len(edges) = 1
    /\ edges[1].source = nodes[1].id
    /\ edges[1].target = nodes[2].id

\* the positions of the edges that leave the port (source, sourceHandle)
EdgesFrom(eds, source, sourceHandle) ==
    {i \in 1..Len(eds) :
        eds[i].source = source /\ eds[i].sourceHandle = sourceHandle}

\* C2: after a connect from a port, the last one handled, exactly one edge
\* leaves that port and it is the edge of that connect: it goes to the
\* target and target handle of the connection, whatever was connected from
\* the port before.
C2_LastConnectOwnsThePort ==
    lastOp.op = "connect" =>
        LET c == lastOp.connection
            from == EdgesFrom(edges, c.source, c.sourceHandle)
        IN  /\ Cardinality(from) = 1
            /\ \A i \in from : /\ edges[i].target = c.target
                               /\ edges[i].targetHandle = c.targetHandle

\* a connect found an edge of an earlier connect from the same port that
\* went to another node
C2_Witness ==
    /\ lastOp.op = "connect"
    /\ lastOp.replaced # "none"
    /\ lastOp.replaced # lastOp.connection.target

\* C3: in every state of the application, whatever nodes were added,
\* connected, edited, deleted, reset, saved and loaded, no two edges of the
\* editor leave the same (source, sourceHandle) port.
C3_SingleOutgoingEdge ==
    \A i \in 1..Len(edges), j \in 1..Len(edges) :
        (i # j) =>
            ~(/\ edges[i].source = edges[j].source
              /\ edges[i].sourceHandle = edges[j].sourceHandle)

\* a saved flow with two edges was loaded when the page started
C3_Witness ==
    /\ lastOp.op = "initializeFlow"
    /\ Len(edges) = 2
    /\ edges[1].source # edges[2].source

\* `new` is `old` restricted to the positions in `keep`, in the same order
IsRestriction(old, new, keep) ==
    \E f \in [1..Len(new) -> 1..Len(old)] :
        /\ \A i \in 1..Len(new) : new[i] = old[f[i]]
        /\ \A i \in 1..Len(new), j \in 1..Len(new) : i < j => f[i] < f[j]
        /\ {f[i] : i \in 1..Len(new)} = keep

NoDanglingEdges(nds, eds) ==
    \A i \in 1..Len(eds) :
        eds[i].source \in NodeIds(nds) /\ eds[i].target \in NodeIds(nds)

\* C4: a deleteNode(id) step leaves no node with that id and no edge whose
\* source or target is id, keeps every other node and every other edge as
\* it was and in its place, and keeps a flow free of dangling edges free of
\* them.
C4_DeleteNodeRemovesNodeAndItsEdges ==
    [][lastOp'.op = "deleteNode" =>
          LET id == lastOp'.nodeId
          IN  /\ id \notin NodeIds(nodes')
              /\ \A i \in 1..Len(edges') :
                    edges'[i].source # id /\ edges'[i].target # id
              /\ IsRestriction(nodes, nodes',
                    {i \in 1..Len(nodes) : nodes[i].id # id})
              /\ IsRestriction(edges, edges',
                    {i \in 1..Len(edges) :
                        edges[i].source # id /\ edges[i].target # id})
              /\ NoDanglingEdges(nodes, edges)
                    => NoDanglingEdges(nodes', edges')]_vars

\* a node was deleted together with an edge incident to it, and another node
\* and another edge are still there
C4_Witness ==
    /\ lastOp.op = "deleteNode"
    /\ lastOp.removedNodes = 1
    /\ lastOp.removedEdges >= 1
    /\ Len(nodes) >= 1
    /\ Len(edges) >= 1


(***************************************************************************)
(* Properties of the storage manager.                                      *)
(***************************************************************************)
\* the text the storage wrapper reads under `key`
Slot(l, m, a, key) == wrapperGetItem(Store(l, m, a), key)

\* the text is the JSON of an object with the nodes and edges of `flow`
HoldsFlow(text, flow) ==
    /\ text.kind = "json"
    /\ ~IsNull(text.val)
    /\ ~IsNull(flow)
    /\ Has(text.val, "nodes") /\ Has(flow, "nodes")
    /\ Has(text.val, "edges") /\ Has(flow, "edges")
    /\ text.val.nodes = flow.nodes
    /\ text.val.edges = flow.edges

\* the text is the JSON of a flow that passes validateFlowData
HoldsValidFlow(text) ==
    text.kind = "json" /\ validateFlowData(text.val).isValid

\* the result is a success carrying the nodes and edges of `flow`
ReturnsFlow(res, flow) ==
    res.success /\ HoldsFlow([kind |-> "json", val |-> res.data], flow)

\* C5: when a successful saveCurrentFlow(Fn) follows a successful
\* saveCurrentFlow(F(n-1)), the backup slot holds afterwards the nodes and
\* edges of F(n-1), the current slot holds those of Fn, and no other slot
\* holds a flow.
C5_BackupIsThePreviousSave ==
    [][(/\ lastOp.op = "saveCurrentFlow"
        /\ lastOp.res.success
        /\ lastOp'.op = "saveCurrentFlow"
        /\ lastOp'.res.success)
          => /\ HoldsFlow(Slot(ls', mem', lsAccess', STORAGE_KEYS.BACKUP_FLOW),
                          lastOp.flow)
             /\ HoldsFlow(Slot(ls', mem', lsAccess', STORAGE_KEYS.CURRENT_FLOW),
                          lastOp'.flow)
             /\ \A key \in StorageKeySet \ {STORAGE_KEYS.BACKUP_FLOW,
                                            STORAGE_KEYS.CURRENT_FLOW} :
                   ls'[key] = NoText /\ mem'[key] = NoText]_vars

\* C6: when saveCurrentFlow(F) has returned success, the getCurrentFlow that
\* comes next returns success with the nodes and edges of F.
C6_SaveThenLoadRoundTrip ==
    [][(/\ lastOp.op = "saveCurrentFlow"
        /\ lastOp.res.success
        /\ lastOp'.op = "getCurrentFlow")
          => ReturnsFlow(lastOp'.res, lastOp.flow)]_vars

\* C7: getCurrentFlow called while the current slot holds text that does
\* not parse and the backup slot holds a valid flow returns success with the
\* flow of the backup and a warning.
C7_MalformedPrimaryRecoversFromBackup ==
    (/\ lastOp.op = "getCurrentFlow"
     /\ Slot(ls, mem, lsAccess, STORAGE_KEYS.CURRENT_FLOW).kind = "malformed"
     /\ HoldsValidFlow(Slot(ls, mem, lsAccess, STORAGE_KEYS.BACKUP_FLOW)))
        => /\ lastOp.res.success
           /\ Has(lastOp.res, "warning")
           /\ lastOp.res.data
                 = Slot(ls, mem, lsAccess, STORAGE_KEYS.BACKUP_FLOW).val

\* C8: getCurrentFlow called while the current slot parses to data that
\* fails validateFlowData and loadBackup succeeds returns success with a
\* warning and with exactly the data of the backup slot.
C8_InvalidPrimaryReturnsBackup ==
    (/\ lastOp.op = "getCurrentFlow"
     /\ Slot(ls, mem, lsAccess, STORAGE_KEYS.CURRENT_FLOW).kind = "json"
     /\ ~HoldsValidFlow(Slot(ls, mem, lsAccess, STORAGE_KEYS.CURRENT_FLOW))
     /\ loadBackup(CurrentStore).success)
        => /\ lastOp.res.success
           /\ Has(lastOp.res, "warning")
           /\ lastOp.res.data
                 = Slot(ls, mem, lsAccess, STORAGE_KEYS.BACKUP_FLOW).val

\* an invalid primary was answered with a valid backup that differs from it
C8_Witness ==
    /\ lastOp.op = "getCurrentFlow"
    /\ Slot(ls, mem, lsAccess, STORAGE_KEYS.CURRENT_FLOW).kind = "json"
    /\ ~HoldsValidFlow(Slot(ls, mem, lsAccess, STORAGE_KEYS.CURRENT_FLOW))
    /\ HoldsValidFlow(Slot(ls, mem, lsAccess, STORAGE_KEYS.BACKUP_FLOW))
    /\ Slot(ls, mem, lsAccess, STORAGE_KEYS.BACKUP_FLOW).val
          # Slot(ls, mem, lsAccess, STORAGE_KEYS.CURRENT_FLOW).val
    /\ lastOp.res.success

\* C9: getCurrentFlow called while the current slot holds something that is
\* not a valid flow and the backup slot is empty or does not hold a valid
\* flow either returns a failure; a success never carries data that is
\* neither null nor a valid flow.
C9_NoSuccessWithInvalidData ==
    lastOp.op = "getCurrentFlow" =>
        /\ (/\ Slot(ls, mem, lsAccess, STORAGE_KEYS.CURRENT_FLOW).kind # "none"
            /\ ~HoldsValidFlow(Slot(ls, mem, lsAccess,
                                    STORAGE_KEYS.CURRENT_FLOW))
            /\ ~HoldsValidFlow(Slot(ls, mem, lsAccess,
                                    STORAGE_KEYS.BACKUP_FLOW)))
              => ~lastOp.res.success
        /\ lastOp.res.success
              => \/ IsNull(lastOp.res.data)
                 \/ validateFlowData(lastOp.res.data).isValid

\* two results of getCurrentFlow return the same flow
SameFlowReturned(r1, r2) ==
    /\ r1.success = r2.success
    /\ r1.success =>
          /\ IsNull(r1.data) = IsNull(r2.data)
          /\ ~IsNull(r1.data) =>
                /\ Has(r1.data, "nodes") = Has(r2.data, "nodes")
                /\ Has(r1.data, "nodes") => r1.data.nodes = r2.data.nodes
                /\ Has(r1.data, "edges") = Has(r2.data, "edges")
                /\ Has(r1.data, "edges") => r1.data.edges = r2.data.edges

\* C10: a saveCurrentFlow step whose flow fails validateFlowData leaves the
\* text of the current slot as it was, and getCurrentFlow returns after the
\* step the flow it returned before it.
C10_RejectedSaveKeepsCurrentFlow ==
    [][(/\ lastOp'.op = "saveCurrentFlow"
        /\ ~validateFlowData(lastOp'.flow).isValid)
          => /\ ls'[STORAGE_KEYS.CURRENT_FLOW] = ls[STORAGE_KEYS.CURRENT_FLOW]
             /\ mem'[STORAGE_KEYS.CURRENT_FLOW]
                   = mem[STORAGE_KEYS.CURRENT_FLOW]
             /\ SameFlowReturned(getCurrentFlow(Store(ls', mem', lsAccess')),
                                 getCurrentFlow(Store(ls, mem, lsAccess)))]_vars

\* the text of the current slot alone
C10_CurrentTextKept ==
    [][(/\ lastOp'.op = "saveCurrentFlow"
        /\ ~validateFlowData(lastOp'.flow).isValid)
          => /\ ls'[STORAGE_KEYS.CURRENT_FLOW] = ls[STORAGE_KEYS.CURRENT_FLOW]
             /\ mem'[STORAGE_KEYS.CURRENT_FLOW]
                   = mem[STORAGE_KEYS.CURRENT_FLOW]]_vars

\* C11: saveCurrentFlow answers every flow that fails validateFlowData, the
\* null flow included, with a failure whose code is VALIDATION_ERROR.
C11_InvalidFlowIsValidationError ==
    (/\ lastOp.op = "saveCurrentFlow"
     /\ ~validateFlowData(lastOp.flow).isValid)
        => /\ ~lastOp.res.success
           /\ lastOp.res.code = "VALIDATION_ERROR"

\* C12: a saveCurrentFlow of a valid flow made while the availability probe
\* fails returns the failure STORAGE_NOT_SUPPORTED, writes nothing to
\* localStorage and nothing to memoryStorage, and the getCurrentFlow that
\* follows does not return the flow.
C12_UnavailableMediumRefusesSave ==
    [][(/\ lastOp'.op = "saveCurrentFlow"
        /\ validateFlowData(lastOp'.flow).isValid
        /\ ~isLocalStorageAvailable(Store(ls, mem, lsAccess)))
          => /\ ~lastOp'.res.success
             /\ lastOp'.res.code = "STORAGE_NOT_SUPPORTED"
             /\ ls' = ls
             /\ mem' = mem
             /\ SameFlowReturned(getCurrentFlow(Store(ls', mem', lsAccess')),
                                 getCurrentFlow(Store(ls, mem, lsAccess)))]_vars

\* a flow with nodes was refused while localStorage could not be accessed
C12_Witness ==
    /\ lastOp.op = "saveCurrentFlow"
    /\ ~lsAccess
    /\ validateFlowData(lastOp.flow).isValid
    /\ Len(lastOp.flow.nodes) >= 2
    /\ lastOp.res.code = "STORAGE_NOT_SUPPORTED"
    /\ ls[STORAGE_KEYS.CURRENT_FLOW].kind = "json"
    /\ ~HoldsFlow(ls[STORAGE_KEYS.CURRENT_FLOW], lastOp.flow)
    /\ mem[STORAGE_KEYS.CURRENT_FLOW] = NoText

\* C13: getCurrentFlow called while the current slot is empty returns
\* success with null data, whatever the backup slot holds.
C13_EmptyCurrentSlotIsSuccessNull ==
    (/\ lastOp.op = "getCurrentFlow"
     /\ Slot(ls, mem, lsAccess, STORAGE_KEYS.CURRENT_FLOW).kind = "none")
        => /\ lastOp.res.success
           /\ IsNull(lastOp.res.data)
           /\ ~Has(lastOp.res, "warning")

\* the current slot was found empty while the backup slot held a valid flow
C13_Witness ==
    /\ lastOp.op = "getCurrentFlow"
    /\ Slot(ls, mem, lsAccess, STORAGE_KEYS.CURRENT_FLOW).kind = "none"
    /\ HoldsValidFlow(Slot(ls, mem, lsAccess, STORAGE_KEYS.BACKUP_FLOW))
    /\ lastOp.res.success

\* C14: loadBackup called while the backup slot is empty returns the failure
\* NO_BACKUP, never a success; and the backup slot is empty, so that
\* loadBackup answers NO_BACKUP, right after a successful saveCurrentFlow
\* into a storage that held nothing.
C14_EmptyBackupSlotIsNoBackup ==
    [][/\ (/\ lastOp'.op = "loadBackup"
           /\ Slot(ls', mem', lsAccess', STORAGE_KEYS.BACKUP_FLOW).kind = "none")
             => /\ ~lastOp'.res.success
                /\ lastOp'.res.code = "NO_BACKUP"
       /\ (/\ lastOp'.op = "saveCurrentFlow"
           /\ lastOp'.res.success
           /\ ls = EmptyStore
           /\ mem = EmptyStore)
             => /\ ~loadBackup(Store(ls', mem', lsAccess')).success
                /\ loadBackup(Store(ls', mem', lsAccess')).code = "NO_BACKUP"]_vars

\* loadBackup was called after a flow had been saved and found no backup
C14_Witness ==
    /\ lastOp.op = "loadBackup"
    /\ lastOp.res.code = "NO_BACKUP"
    /\ HoldsValidFlow(Slot(ls, mem, lsAccess, STORAGE_KEYS.CURRENT_FLOW))
    /\ Slot(ls, mem, lsAccess, STORAGE_KEYS.BACKUP_FLOW).kind = "none"

\* C15: a clearAllData step returns true and removes the four keys: none
\* of them can be read afterwards and, where localStorage can be accessed,
\* none of them is left in it; when the removal of one key raises, the
\* other keys are removed all the same and the result is still true.
C15_ClearAllDataRemovesEveryKey ==
    [][lastOp'.op = "clearAllData" =>
          /\ lastOp'.ret = TRUE
          /\ \A key \in StorageKeySet \ {lastOp'.threwAt} :
                /\ Slot(ls', mem', lsAccess', key).kind = "none"
                /\ lsAccess' => ls'[key] = NoText]_vars

(***************************************************************************)
(* Properties of the structural validation.                                *)
(***************************************************************************)
\* the field is there and is not the empty string
Filled(o, k) == k \in DOMAIN o /\ o[k] # ""

\* a value of JavaScript's number type
Numeric(c) == c \in {"0", "15", "30", "NaN"}

NodeWellFormed(n) ==
    /\ Filled(n, "id")
    /\ Filled(n, "type")
    /\ "position" \in DOMAIN n
    /\ "x" \in DOMAIN n.position /\ Numeric(n.position.x)
    /\ "y" \in DOMAIN n.position /\ Numeric(n.position.y)

EdgeWellFormed(e) ==
    Filled(e, "id") /\ Filled(e, "source") /\ Filled(e, "target")

FlowWellFormed(f) ==
    /\ f.js = "object"
    /\ "nodes" \in DOMAIN f
    /\ "edges" \in DOMAIN f
    /\ \A i \in 1..Len(f.nodes) : NodeWellFormed(f.nodes[i])
    /\ \A i \in 1..Len(f.edges) : EdgeWellFormed(f.edges[i])

\* C16: validateFlowData answers every input with a result, never with an
\* exception, and the result is valid exactly when the flow is an object
\* that is not null, nodes and edges are sequences, every node has a
\* non-empty id, a type and a position whose x and y are of the number type,
\* and every edge has a non-empty id, source and target.
C16_ValidateFlowDataRule ==
    lastOp.op = "validateFlowData" =>
        /\ lastOp.result.isValid \in BOOLEAN
        /\ lastOp.result.isValid <=> FlowWellFormed(lastOp.flow)

\* a flow was refused for its second node alone
C16_Witness ==
    /\ lastOp.op = "validateFlowData"
    /\ ~lastOp.result.isValid
    /\ "nodes" \in DOMAIN lastOp.flow
    /\ Len(lastOp.flow.nodes) = 2
    /\ NodeWellFormed(lastOp.flow.nodes[1])
    /\ Filled(lastOp.flow.nodes[2], "id")
    /\ ~Filled(lastOp.flow.nodes[2], "type")

\* the flow has an edge whose source or target is not the id of one of its
\* nodes
HasDanglingEdge(f) ==
    /\ f.js = "object"
    /\ "nodes" \in DOMAIN f
    /\ "edges" \in DOMAIN f
    /\ \E i \in 1..Len(f.edges) :
          /\ EdgeWellFormed(f.edges[i])
          /\ \/ \A j \in 1..Len(f.nodes) :
                   Filled(f.nodes[j], "id") => f.nodes[j].id # f.edges[i].source
             \/ \A j \in 1..Len(f.nodes) :
                   Filled(f.nodes[j], "id") => f.nodes[j].id # f.edges[i].target

\* C17: saveCurrentFlow refuses a flow that has a dangling edge, and
\* getCurrentFlow does not return as valid primary data a stored flow that
\* has one.
C17_DanglingEdgesAreCaught ==
    /\ (lastOp.op = "saveCurrentFlow" /\ HasDanglingEdge(lastOp.flow))
          => ~lastOp.res.success
    /\ (/\ lastOp.op = "getCurrentFlow"
        /\ Slot(ls, mem, lsAccess, STORAGE_KEYS.CURRENT_FLOW).kind = "json"
        /\ HasDanglingEdge(Slot(ls, mem, lsAccess,
                                STORAGE_KEYS.CURRENT_FLOW).val))
          => ~(/\ lastOp.res.success
               /\ ~Has(lastOp.res, "warning")
               /\ lastOp.res.data
                     = Slot(ls, mem, lsAccess, STORAGE_KEYS.CURRENT_FLOW).val)

\* C18: an updateNodeData(nodeId, newData) step gives the node with that id
\* exactly newData as its data and leaves the rest of that node (id, type,
\* position and every other property), every other node and every edge as
\* they were; when no node has the id, nothing changes.
C18_UpdateNodeDataReplacesData ==
    [][lastOp'.op = "updateNodeData" =>
          /\ Len(nodes') = Len(nodes)
          /\ \A i \in 1..Len(nodes) :
                IF nodes[i].id = lastOp'.nodeId
                THEN /\ nodes'[i].data = lastOp'.newData
                     /\ DOMAIN nodes'[i] = DOMAIN nodes[i]
                     /\ \A k \in DOMAIN nodes[i] \ {"data"} :
                           nodes'[i][k] = nodes[i][k]
                ELSE nodes'[i] = nodes[i]
          /\ edges' = edges
          /\ (\A i \in 1..Len(nodes) : nodes[i].id # lastOp'.nodeId)
                => nodes' = nodes]_vars

\* the data of a node were replaced by data without the createdAt and id the
\* node was created with
C18_Witness ==
    /\ lastOp.op = "updateNodeData"
    /\ \E i \in 1..Len(nodes) :
          /\ nodes[i].id = lastOp.nodeId
          /\ nodes[i].data = lastOp.newData
          /\ "createdAt" \notin DOMAIN nodes[i].data
    /\ Len(nodes) >= 2
    /\ Len(edges) >= 1

(***************************************************************************)
(* Properties of adding a node.                                            *)
(***************************************************************************)
\* `new` is `old` with one node of the given type put at its end
AppendedNode(old, new, type) ==
    /\ Len(new) = Len(old) + 1
    /\ \A i \in 1..Len(old) : new[i] = old[i]
    /\ new[Len(new)].type = type

\* C19: adding a node of a registered kind puts it at the end of the node
\* sequence; adding null, or a node whose type is not a registered kind,
\* leaves the node sequence as it was and raises nothing. This holds for
\* the drop handler of FlowBuilder (createNewNode, addNode) and for the
\* addNode of useFlowManager.
C19_AddNodeAppendsOrRejects ==
    [][/\ lastOp'.op = "drop" =>
             IF lastOp'.nodeType \in DOMAIN NODE_CONFIGS
             THEN AppendedNode(nodes, nodes', lastOp'.nodeType)
             ELSE nodes' = nodes
       /\ lastOp'.op = "addNode" =>
             /\ lastOp'.threw = "none"
             /\ IF /\ ~IsNullItem(lastOp'.nodeData)
                   /\ lastOp'.nodeData.type \in DOMAIN NODE_CONFIGS
                THEN AppendedNode(nodes, nodes', lastOp'.nodeData.type)
                ELSE nodes' = nodes]_vars

(***************************************************************************)
(* Properties of the Save button.                                          *)
(***************************************************************************)
\* the number of edges that leave the node
OutDegree(nds, eds, i) ==
    Cardinality({j \in 1..Len(eds) : eds[j].source = nds[i].id})

C21_ValidatorRunsBeforeStorage ==
    [][lastOp'.op = "handleSave" =>
          /\ ~lastOp'.validation.isValid =>
                /\ "res" \notin DOMAIN lastOp'
                /\ ls' = ls
                /\ mem' = mem
          /\ ls'[STORAGE_KEYS.CURRENT_FLOW] # ls[STORAGE_KEYS.CURRENT_FLOW] =>
                /\ HoldsFlow(ls'[STORAGE_KEYS.CURRENT_FLOW],
                             [js |-> "object", nodes |-> nodes,
                              edges |-> edges])
                /\ \/ Len(nodes) <= 1
                   \/ Cardinality(WithoutIncoming(nodes, edges)) <= 1]_vars

\* Save was pressed on two nodes without any edge while an earlier flow was
\* stored: the validation failed and the stored flow is still there
C21_Witness ==
    /\ lastOp.op = "handleSave"
    /\ ~lastOp.validation.isValid
    /\ Len(nodes) = 2
    /\ Len(edges) = 0
    /\ ls[STORAGE_KEYS.CURRENT_FLOW].kind = "json"
    /\ ls[STORAGE_KEYS.BACKUP_FLOW].kind = "json"

\* C22: no operation ends with an exception that leaves it: every step that
\* records how the operation ended (the addNode of useFlowManager, called
\* with a registered kind, an unregistered kind and null) ended with a
\* returned value.
C22_NoOperationRaises ==
    Has(lastOp, "threw") => lastOp.threw = "none"

\* C23: validateFlow counts the nodes without incoming edge and does not
\* follow the edges: whenever it is called on a flow with exactly one node
\* without incoming edge it accepts, also when some node cannot be reached
\* from that node (a start node beside a cycle of other nodes).
C23_ValidatorIsNotReachability ==
    (/\ lastOp.op = "validateFlow"
     /\ Cardinality(WithoutIncoming(nodes, edges)) = 1
     /\ Unreachable(nodes, edges) # {})
        => lastOp.result.isValid

\* validateFlow accepted three nodes of which the first has no edge at all
\* and the other two are joined in a cycle
C23_Witness ==
    /\ lastOp.op = "validateFlow"
    /\ lastOp.result.isValid
    /\ Len(nodes) = 3
    /\ Len(edges) = 2
    /\ WithoutIncoming(nodes, edges) = {1}
    /\ \A j \in 1..Len(edges) : /\ edges[j].source # nodes[1].id
                                /\ edges[j].source # edges[j].target
    /\ Unreachable(nodes, edges) = {nodes[2].id, nodes[3].id}

\* C24: the start of the application (initializeFlow) ends the loading;
\* when the last operation of the program was a successful
\* saveCurrentFlow(F) the editor holds the nodes and edges of F afterwards;
\* when nothing was ever saved the editor is empty and no error dialog is
\* shown; and when getCurrentFlow answered from the backup the warning
\* dialog is shown.
C24_StartRestoresTheSavedFlow ==
    [][lastOp'.op = "initializeFlow" =>
          /\ ~isLoading'
          /\ (lastOp.op = "saveCurrentFlow" /\ lastOp.res.success) =>
                /\ nodes' = lastOp.flow.nodes
                /\ edges' = lastOp.flow.edges
          /\ lastOp.op = "init" =>
                /\ nodes' = <<>>
                /\ edges' = <<>>
                /\ ~(modalState'.isOpen /\ modalState'.type = "error")
          /\ Has(lastOp'.res, "warning") =>
                /\ modalState'.isOpen
                /\ modalState'.type = "warning"]_vars

\* C25: when saveCurrentFlow is cut short at any of its points while the
\* current slot held a valid flow, that flow is afterwards still held by the
\* current slot or by the backup slot; and when it is cut short between the
\* backup write and the current write, with localStorage available when the
\* save began, the backup slot holds that flow.
C25_OldFlowSurvivesEveryPoint ==
    [][(/\ lastOp'.op = "saveInterrupted"
        /\ HoldsValidFlow(ls[STORAGE_KEYS.CURRENT_FLOW])) =>
          LET old == ls[STORAGE_KEYS.CURRENT_FLOW].val
          IN  /\ \/ HoldsFlow(ls'[STORAGE_KEYS.CURRENT_FLOW], old)
                 \/ HoldsFlow(ls'[STORAGE_KEYS.BACKUP_FLOW], old)
              /\ (lastOp'.point = 2 /\ isLocalStorageAvailable(CurrentStore))
                    => /\ HoldsFlow(ls'[STORAGE_KEYS.CURRENT_FLOW], old)
                       /\ HoldsFlow(ls'[STORAGE_KEYS.BACKUP_FLOW], old)]_vars

\* C26: a saveCurrentFlow step that returns a failure leaves the backup as
\* it was: loadBackup gives afterwards what it gave before the step.
C26_FailedSaveKeepsTheBackup ==
    [][(lastOp'.op = "saveCurrentFlow" /\ ~lastOp'.res.success) =>
          loadBackup(Store(ls', mem', lsAccess'))
              = loadBackup(Store(ls, mem, lsAccess))]_vars

\* every coordinate of the flow is a finite number
FiniteCoordinates(flow) ==
    \A i \in 1..Len(flow.nodes) :
        /\ flow.nodes[i].position.x # "NaN"
        /\ flow.nodes[i].position.y # "NaN"

\* C27: when the last operation of the program was a saveCurrentFlow(F)
\* that returned success, F having finite coordinates, a getCurrentFlow
\* returns the nodes and edges of F, whatever happened to the medium in
\* between (access refused, quota used up by other items).
C27_FallbackIsTransparentToReaders ==
    [][(/\ lastOp.op = "saveCurrentFlow"
        /\ lastOp.res.success
        /\ FiniteCoordinates(lastOp.flow)
        /\ lastOp'.op = "getCurrentFlow")
          => ReturnsFlow(lastOp'.res, lastOp.flow)]_vars

(***************************************************************************)
(* Properties of connects handled against one snapshot.                    *)
(***************************************************************************)
\* C28: after two connect events from the same port to different targets
\* were handled by the onConnect of one render, at most one edge leaves
\* that port.
C28_StaleSnapshotKeepsSingleEdge ==
    (/\ lastOp.op = "connectTwice"
     /\ lastOp.first.target # lastOp.second.target)
        => Cardinality(EdgesFrom(edges, lastOp.first.source,
                                 lastOp.first.sourceHandle)) <= 1

(***************************************************************************)
(* Properties of Reset All.                                                *)
(***************************************************************************)
\* C29: a click on the confirm button of the reset dialog leaves the editor
\* without nodes and edges, leaves the current and the backup slot as they
\* were, and leaves the dialog 'Flow Reset Complete' open; a click on the
\* cancel button leaves nodes and edges as they were.
C29_ResetConfirmedShowsCompletion ==
    [][/\ lastOp'.op = "confirmClick" =>
             /\ nodes' = <<>>
             /\ edges' = <<>>
             /\ ls'[STORAGE_KEYS.CURRENT_FLOW] = ls[STORAGE_KEYS.CURRENT_FLOW]
             /\ ls'[STORAGE_KEYS.BACKUP_FLOW] = ls[STORAGE_KEYS.BACKUP_FLOW]
             /\ mem' = mem
             /\ modalState'.isOpen
             /\ modalState'.type = "success"
             /\ modalState'.title = "Flow Reset Complete"
       /\ lastOp'.op = "cancelClick" =>
             /\ nodes' = nodes
             /\ edges' = edges]_vars

(***************************************************************************)
(* Properties of the inline text edit.                                     *)
(***************************************************************************)
\* C30: an update whose new data is what window.updateNodeText passes (the
\* text and lastModified) gives the node that text and keeps the id and the
\* createdAt its data had, with their values; every other node stays as it
\* was.
C30_InlineEditKeepsOtherData ==
    [][(/\ lastOp'.op = "updateNodeData"
        /\ DOMAIN lastOp'.newData = {"text", "lastModified"}) =>
          /\ Len(nodes') = Len(nodes)
          /\ \A i \in 1..Len(nodes) :
                IF nodes[i].id = lastOp'.nodeId
                THEN /\ nodes'[i].data.text = lastOp'.newData.text
                     /\ \A k \in {"id", "createdAt"} :
                           Has(nodes[i].data, k) =>
                               /\ Has(nodes'[i].data, k)
                               /\ nodes'[i].data[k] = nodes[i].data[k]
                ELSE nodes'[i] = nodes[i]]_vars

=============================================================================
